---- MODULE Spec2Model ----
(***************************************************************************)
(* Sax-gear: a scraper that fetches listing pages, extracts listings,      *)
(* filters them by brand, diffs them against the persisted snapshot and    *)
(* mails the new ones.  Two programs share the snapshot file               *)
(* data/last_items.json: scraper_auto.py (run_once) and script.py (main).  *)
(*                                                                         *)
(* Text is a sequence of one-character strings; a Python dict is a record  *)
(* (a missing key is a field outside its DOMAIN); None is the record       *)
(* NoneVal.  A function that can raise returns [raised, val].              *)
(***************************************************************************)
EXTENDS Integers, Sequences, FiniteSets, TLC

VARIABLES
    prog,        \* which program executes the current run: "auto" | "script"
    pc,          \* the statement the main thread is at, or raised in
    playwright,  \* whether `from playwright.sync_api import ...` succeeds
    exc,         \* the uncaught exception that ended the run, "" if none
    file,        \* the snapshot file data/last_items.json
    html,        \* per site: the local `html` of fetch_site at `if not html`
    yielded,     \* sites whose future as_completed has handed over
    contrib,     \* per site: what its future added to all_items
    all_items,   \* run_once / main local all_items
    filtered,    \* run_once / main local filtered
    previous,    \* run_once / main local previous
    new_items,   \* run_once / main local new_items
    todo,        \* statements of the `if new_items` branch still to execute
    saves,       \* number of calls of save_current / save_current_items this run
    mails,       \* arguments of the send_email calls of this run, in order
    started,     \* snapshot file as it was when the run started
    latest,      \* filtered of the last run that found new items
    vanished,    \* links of the snapshot missed by a run since the last write
    runs,        \* number of runs started so far
    config,      \* the module globals SITES and TARGET_BRANDS of the program
    futures,     \* per submitted site: where its fetch task is, and its result
    sched        \* scraper_auto.py __main__: the mode, the scheduler, its job

vars == <<prog, pc, playwright, exc, file, html, yielded, contrib, all_items,
          filtered, previous, new_items, todo, saves, mails, started, latest,
          vanished, runs, config, futures, sched>>

-----------------------------------------------------------------------------
(* Bounds of the model. *)

\* Runs of the programs that one behaviour strings together.
MaxRuns == 2

\* Sites that answer in the runs; the sites after them fail every fetch.
LiveSites == 1

\* Products on a page given to the extractor alone.
MaxProducts == 2

\* Listings in each collection given to the diff alone.
MaxListings == 2

-----------------------------------------------------------------------------
(* Python values. *)

NoneVal == [is_none |-> TRUE]

Ok(v) == [raised |-> FALSE, val |-> v]

Raise(e) == [raised |-> TRUE, exc |-> e]

Range(s) == {s[i] : i \in 1..Len(s)}

\* str.lower() on the ASCII letters.
UpperChars == <<"A","B","C","D","E","F","G","H","I","J","K","L","M",
                "N","O","P","Q","R","S","T","U","V","W","X","Y","Z">>

LowerChars == <<"a","b","c","d","e","f","g","h","i","j","k","l","m",
                "n","o","p","q","r","s","t","u","v","w","x","y","z">>

LowerChar(c) ==
    IF \E i \in 1..Len(UpperChars) : UpperChars[i] = c
    THEN LowerChars[CHOOSE i \in 1..Len(UpperChars) : UpperChars[i] = c]
    ELSE c

lower(s) == [i \in 1..Len(s) |-> LowerChar(s[i])]

\* Python's `sub in s` on strings.
Contains(sub, s) ==
    \E i \in 0..(Len(s) - Len(sub)) : SubSeq(s, i + 1, i + Len(sub)) = sub

IsSpace(c) == c \in {" ", "\n", "\t"}

RECURSIVE lstrip(_)
lstrip(s) == IF s # <<>> /\ IsSpace(Head(s)) THEN lstrip(Tail(s)) ELSE s

RECURSIVE rstrip(_)
rstrip(s) ==
    IF s # <<>> /\ IsSpace(s[Len(s)]) THEN rstrip(SubSeq(s, 1, Len(s) - 1)) ELSE s

\* Tag.get_text(strip=True) of an element holding one text node.
get_text(el) == rstrip(lstrip(el.text))

\* Truthiness of d.get(key) for a str-valued key: the key is there and its
\* value is not the empty string.
GetTruthy(d, key) == key \in DOMAIN d /\ d[key] # ""

-----------------------------------------------------------------------------
(* Configuration. *)

TARGET_BRANDS ==
    << <<"S","e","l","m","e","r">>, <<"O","t","t","o"," ","L","i","n","k">>,
       <<"D","a","v","e"," ","G","u","a","r","d","a","l","a">>,
       <<"Y","a","n","a","g","i","s","a","w","a">>,
       <<"B","e","e","c","h","l","e","r">>, <<"Y","a","n","i">>,
       <<"O","t","t","o">> >>

script_TARGET_BRANDS ==
    << <<"S","e","l","m","e","r">>, <<"O","t","t","o">>,
       <<"G","u","a","r","d","a","l","a">>,
       <<"Y","a","n","a","g","i","s","a","w","a">>,
       <<"B","e","e","c","h","l","e","r">>, <<"Y","a","n","i">> >>

SITES ==
    << [url |-> "https://www.getasax.com/collections/mouthpieces",
        item |-> ".product-grid-item", name |-> ".product-title",
        price |-> ".price", link |-> "a"],
       [url |-> "https://www.saxquest.com/",
        item |-> ".product-listing", name |-> ".product-title",
        price |-> ".product-price", link |-> "a"],
       [url |-> "https://www.dcsax.com/",
        item |-> ".product-item", name |-> ".product-title",
        price |-> ".price", link |-> "a"],
       [url |-> "https://www.soundfuga.jp/",
        item |-> ".product-item", name |-> ".product-title",
        price |-> ".price", link |-> "a"],
       [url |-> "https://www.reverb.com/marketplace?query=saxophone",
        item |-> ".product-card", name |-> ".product-card-title",
        price |-> ".product-card-price", link |-> "a"] >>

Sites == 1..Len(SITES)

PriceNotListed ==
    <<"P","r","i","c","e"," ","n","o","t"," ","l","i","s","t","e","d">>

\* len(html) below which fetch_site escalates to the dynamic fetch
EscalationThreshold == 2000

script_EscalationThreshold == 5000

-----------------------------------------------------------------------------
(* Pages.  A page is what BeautifulSoup sees: the elements that            *)
(* soup.select(site["item"]) returns, each with the elements its           *)
(* select_one calls return (NoneVal when nothing matches).                 *)

\* hrefs urlsplit rejects ("Invalid IPv6 URL")
InvalidHrefs == {"http://["}

\* hrefs that carry their own scheme and host
AbsoluteHrefs == {"https://www.getasax.com/a"}

\* scheme and host of a site's url
Origin(url) ==
    CASE url = SITES[1].url -> "https://www.getasax.com"
      [] url = SITES[2].url -> "https://www.saxquest.com"
      [] url = SITES[3].url -> "https://www.dcsax.com"
      [] url = SITES[4].url -> "https://www.soundfuga.jp"
      [] url = SITES[5].url -> "https://www.reverb.com"

\* urllib.parse.urljoin(base, url) for an empty url, an absolute url and a
\* rooted path.
urljoin(base, url) ==
    IF url = "" THEN Ok(base)
    ELSE IF url \in InvalidHrefs THEN Raise("ValueError")
    ELSE IF url \in AbsoluteHrefs THEN Ok(url)
    ELSE Ok(Origin(base) \o url)

\* bool(tag): a bs4 Tag is truthy whatever it holds; None is falsy.
TagTruthy(el) == el # NoneVal

\* scraper_auto.py: link_el.get("href") or link_el.get("data-href") or ""
auto_href(link_el) ==
    IF GetTruthy(link_el.attrs, "href") THEN link_el.attrs["href"]
    ELSE IF GetTruthy(link_el.attrs, "data-href") THEN link_el.attrs["data-href"]
    ELSE ""

\* script.py: link_el.get("href"); urljoin treats None like "".
script_href(link_el) ==
    IF "href" \in DOMAIN link_el.attrs THEN link_el.attrs["href"] ELSE ""

\* scraper_auto.py, body of the for loop of parse_items_from_html: the
\* listings one product appends (none when it is skipped), or the exception
\* the try block catches.
auto_parse_product(product, site) ==
    IF ~TagTruthy(product.name_el) \/ ~TagTruthy(product.link_el)
    THEN Ok(<<>>)
    ELSE LET name  == get_text(product.name_el)
             price == IF TagTruthy(product.price_el)
                      THEN get_text(product.price_el) ELSE PriceNotListed
             link  == urljoin(site.url, auto_href(product.link_el))
         IN  IF link.raised THEN link
             ELSE Ok(<< [name |-> name, price |-> price, link |-> link.val,
                         source |-> site.url] >>)

RECURSIVE parse_items_from_html(_, _)
parse_items_from_html(products, site) ==
    IF products = <<>> THEN <<>>
    ELSE LET r == auto_parse_product(Head(products), site)
         IN  (IF r.raised THEN <<>> ELSE r.val)
                 \o parse_items_from_html(Tail(products), site)

\* script.py, body of the for loop of parse_items.
script_parse_product(product, site) ==
    IF TagTruthy(product.name_el) /\ TagTruthy(product.link_el)
    THEN LET name  == get_text(product.name_el)
             price == IF TagTruthy(product.price_el)
                      THEN get_text(product.price_el) ELSE PriceNotListed
             link  == urljoin(site.url, script_href(product.link_el))
         IN  IF link.raised THEN link
             ELSE Ok(<< [name |-> name, price |-> price, link |-> link.val] >>)
    ELSE Ok(<<>>)

\* script.py parse_items: no try block, the first exception ends the loop.
RECURSIVE parse_items(_, _)
parse_items(products, site) ==
    IF products = <<>> THEN Ok(<<>>)
    ELSE LET r == script_parse_product(Head(products), site)
         IN  IF r.raised THEN r
             ELSE LET rest == parse_items(Tail(products), site)
                  IN  IF rest.raised THEN rest ELSE Ok(r.val \o rest.val)

-----------------------------------------------------------------------------
(* Fetcher.  A response is what the network gives for one request:         *)
(* [kind |-> "exception"], [kind |-> "status"] (a status other than 200)   *)
(* or [kind |-> "ok", body |-> page].  A page is [len, products]: the      *)
(* length of the text and the products BeautifulSoup would find in it.     *)

\* `not html`: None or the empty string
Falsy(h) == h = NoneVal \/ h.len = 0

\* both files: resp.text when the status is 200, None otherwise
fetch_static_html(resp) == IF resp.kind = "ok" THEN resp.body ELSE NoneVal

\* scraper_auto.py: None without Playwright or when the rendering raises
fetch_dynamic_html(available, resp) ==
    IF ~available THEN NoneVal
    ELSE IF resp.kind = "ok" THEN resp.body ELSE NoneVal

\* script.py: the rendering, None when it raises
script_fetch_dynamic_html(resp) ==
    IF resp.kind = "ok" THEN resp.body ELSE NoneVal

\* the test gone wrong: a short body is taken for a page
escalates_when_missing(h) == Falsy(h)

\* scraper_auto.py fetch_site: `if not html or len(html) < 2000:`
escalates(h) == Falsy(h) \/ h.len < EscalationThreshold

\* script.py fetch_site_data: `if not html or len(html) < 5000:`
script_escalates(h) == Falsy(h) \/ h.len < script_EscalationThreshold

\* scraper_auto.py fetch_site: the html at `if not html:` (line 148)
fetch_site_html(available, env) ==
    LET h == fetch_static_html(env.static)
    IN  IF escalates(h)
        THEN fetch_dynamic_html(available, env.dynamic)
        ELSE h

fetch_site(site, h) ==
    IF Falsy(h) THEN Ok(<<>>) ELSE Ok(parse_items_from_html(h.products, site))

\* script.py fetch_site_data: the html at `if not html:` (line 94)
fetch_site_data_html(env) ==
    LET h == fetch_static_html(env.static)
    IN  IF script_escalates(h)
        THEN script_fetch_dynamic_html(env.dynamic)
        ELSE h

fetch_site_data(site, h) ==
    IF Falsy(h) THEN Ok(<<>>) ELSE parse_items(h.products, site)

-----------------------------------------------------------------------------
(* Filter. *)

\* the test gone wrong: the name is compared as it is spelled
MatchesBrandCased(name, brands) ==
    \E k \in 1..Len(brands) : Contains(lower(brands[k]), name)

\* any(b in it["name"].lower() for b in brands_l)
MatchesBrand(name, brands) ==
    \E k \in 1..Len(brands) : Contains(lower(brands[k]), lower(name))

KeepMatching(items, brands) ==
    SelectSeq(items, LAMBDA it : MatchesBrand(it.name, brands))

\* scraper_auto.py, brands being the global TARGET_BRANDS
filter_by_brand(items, brands) ==
    IF items = <<>> THEN <<>> ELSE KeepMatching(items, brands)

\* script.py, brands being the global TARGET_BRANDS
filter_items(items, brands) == KeepMatching(items, brands)

-----------------------------------------------------------------------------
(* StateStore.  The file is [exists, readable, text]; its text is          *)
(* [valid |-> FALSE] when it is no JSON document and                       *)
(* [valid |-> TRUE, value |-> v] otherwise, v being [kind |-> "list",      *)
(* items |-> ...] or [kind |-> "null"].  A list element that is no JSON    *)
(* object is NotADict.                                                     *)

NotADict == [not_a_dict |-> TRUE]

IsDict(v) == "not_a_dict" \notin DOMAIN v

JsonList(items) == [kind |-> "list", items |-> items]

JsonNull == [kind |-> "null"]

NoText == [valid |-> FALSE]

Missing == [exists |-> FALSE, readable |-> FALSE, text |-> NoText]

\* json.dump(items, f): the document that json.load reads back as the list
json_dump(items) == [valid |-> TRUE, value |-> JsonList(items)]

json_load(text) == IF text.valid THEN Ok(text.value) ELSE Raise("JSONDecodeError")

\* open(DATA_FILE, "r") followed by json.load(f)
ReadFile(f) == IF ~f.readable THEN Raise("OSError") ELSE json_load(f.text)

\* scraper_auto.py
load_previous(f) ==
    IF ~f.exists THEN Ok(JsonList(<<>>))
    ELSE LET r == ReadFile(f)
         IN  IF r.raised THEN Ok(JsonList(<<>>)) ELSE r

\* script.py
load_previous_items(f) ==
    IF f.exists THEN ReadFile(f) ELSE Ok(JsonList(<<>>))

\* scraper_auto.py: {i.get("link") for i in previous if i.get("link")}
RECURSIVE prev_links(_)
prev_links(items) ==
    IF items = <<>> THEN Ok({})
    ELSE IF ~IsDict(Head(items)) THEN Raise("AttributeError")
    ELSE LET rest == prev_links(Tail(items))
         IN  IF rest.raised THEN rest
             ELSE IF GetTruthy(Head(items), "link")
                  THEN Ok({Head(items).link} \cup rest.val)
                  ELSE rest

\* the comprehension gone wrong: the test against prev_links is missing
new_in_unchecked(current, links) ==
    SelectSeq(current, LAMBDA it : GetTruthy(it, "link"))

\* scraper_auto.py: [i for i in current if i.get("link") and ... not in ...]
RECURSIVE new_in(_, _)
new_in(current, links) ==
    IF current = <<>> THEN <<>>
    ELSE (IF GetTruthy(Head(current), "link") /\ Head(current).link \notin links
          THEN <<Head(current)>> ELSE <<>>) \o new_in(Tail(current), links)

\* the diff gone wrong: a listing is old only if the snapshot holds an equal dict
find_new_items_by_value(current, prev) ==
    IF prev.kind # "list" THEN Raise("TypeError")
    ELSE Ok(SelectSeq(current, LAMBDA it : it \notin Range(prev.items)))

find_new_items(current, prev) ==
    IF prev.kind # "list" THEN Raise("TypeError")
    ELSE LET links == prev_links(prev.items)
         IN  IF links.raised THEN links ELSE Ok(new_in(current, links.val))

\* script.py: {i["link"] for i in previous}
RECURSIVE script_prev_links(_)
script_prev_links(items) ==
    IF items = <<>> THEN Ok({})
    ELSE IF ~IsDict(Head(items)) THEN Raise("TypeError")
    ELSE IF "link" \notin DOMAIN Head(items) THEN Raise("KeyError")
    ELSE LET rest == script_prev_links(Tail(items))
         IN  IF rest.raised THEN rest ELSE Ok({Head(items).link} \cup rest.val)

\* script.py: [i for i in current if i["link"] not in prev_links]
RECURSIVE script_new_in(_, _)
script_new_in(current, links) ==
    IF current = <<>> THEN <<>>
    ELSE (IF Head(current).link \notin links THEN <<Head(current)>> ELSE <<>>)
             \o script_new_in(Tail(current), links)

\* the diff gone wrong: a listing is old only if the snapshot holds an equal dict
script_find_new_items_by_value(current, prev) ==
    IF prev.kind # "list" THEN Raise("TypeError")
    ELSE Ok(SelectSeq(current, LAMBDA it : it \notin Range(prev.items)))

script_find_new_items(current, prev) ==
    IF prev.kind # "list" THEN Raise("TypeError")
    ELSE LET links == script_prev_links(prev.items)
         IN  IF links.raised THEN links ELSE Ok(script_new_in(current, links.val))

\* The file after open(DATA_FILE, "w") and json.dump(items, f), and whether
\* that raised.  disk = "ok": both succeed; "open": open raises and the file
\* is untouched; "write": open truncates the file and the dump raises.
WriteFile(f, items, disk) ==
    CASE disk = "ok" ->
           [raised |-> FALSE,
            file |-> [exists |-> TRUE,
                      readable |-> IF f.exists THEN f.readable ELSE TRUE,
                      text |-> json_dump(items)]]
      [] disk = "open" -> [raised |-> TRUE, file |-> f]
      [] disk = "write" ->
           [raised |-> TRUE,
            file |-> [exists |-> TRUE,
                      readable |-> IF f.exists THEN f.readable ELSE TRUE,
                      text |-> NoText]]

\* scraper_auto.py: the exception is logged and swallowed
save_current(f, items, disk) ==
    [raised |-> FALSE, file |-> WriteFile(f, items, disk).file]

\* script.py: the exception propagates
save_current_items(f, items, disk) == WriteFile(f, items, disk)

-----------------------------------------------------------------------------
(* Orchestrator. *)

\* the globals SITES and TARGET_BRANDS as each file sets them
Shipped(p) ==
    [SITES |-> SITES,
     TARGET_BRANDS |-> IF p = "auto" THEN TARGET_BRANDS ELSE script_TARGET_BRANDS]

\* futures = [ex.submit(fetch_site, site) for site in SITES]
submit(sites) == [s \in DOMAIN sites |-> [state |-> "pending"]]

\* no executor, no futures
NoFutures == <<>>

\* a future whose task returned or raised
Finished(res) == [state |-> "finished", result |-> res]

\* ThreadPoolExecutor(max_workers=4) / ThreadPoolExecutor(max_workers=3)
max_workers == 4

script_max_workers == 3

\* the pool gone wrong: one thread per submitted task
pool_unbounded(p) == Len(SITES)

\* the worker threads of the executor of a program
pool_size(p) == IF p = "auto" THEN max_workers ELSE script_max_workers

\* the sites whose task a worker thread is executing, blocked in a request
\* or in a browser
Running(f) == {s \in DOMAIN f : f[s].state \in {"static", "dynamic"}}

\* the loop body gone wrong: all_items = res
collect_assign(acc, res) ==
    IF res.raised THEN Ok(acc)
    ELSE IF res.val # <<>> THEN Ok(res.val) ELSE Ok(acc)

\* scraper_auto.py, body of `for fut in as_completed(futures)`: all_items
\* after one future; an exception of the future is logged and dropped.
collect(acc, res) ==
    IF res.raised THEN Ok(acc)
    ELSE IF res.val # <<>> THEN Ok(acc \o res.val) ELSE Ok(acc)

\* script.py: all_items.extend(f.result()); an exception propagates.
script_collect(acc, res) == IF res.raised THEN res ELSE Ok(acc \o res.val)

\* the branch gone wrong: the mail leaves before the snapshot is written
NotifyFirst == <<"notify", "save">>

\* both files: the statements run when new_items is truthy, in order
OnNewItems == <<"save", "notify">>

\* the test gone wrong: the branch is taken whatever the diff is
BranchAlways(new) == OnNewItems

\* both files: `if new_items: ... else: (log only)`
Branch(new) == IF new # <<>> THEN OnNewItems ELSE <<>>

\* scraper_auto.py send_email: False without credentials or when SMTP
\* raises, True once the mail is sent.
send_email(smtp) == smtp = "sent"

\* script.py send_email returns None on every path.
script_send_email(smtp) == NoneVal

-----------------------------------------------------------------------------
(* The environment: what the sites serve and what the disk does. *)

El(text) == [text |-> text]

Anchor(attrs) == [attrs |-> attrs]

ProdA ==
    [name_el |-> El(<<"S","e","l","m","e","r">>), price_el |-> El(<<"$","5">>),
     link_el |-> Anchor([href |-> "/a"])]

\* the listing of ProdA after the shop renamed it and dropped its price
ProdA2 ==
    [name_el |-> El(<<"S","E","L","M","E","R"," ","I","I">>),
     price_el |-> NoneVal, link_el |-> Anchor([href |-> "/a"])]

ProdB ==
    [name_el |-> El(<<" ","y","a","n","i","\n">>), price_el |-> El(<<>>),
     link_el |-> Anchor(("href" :> "") @@ ("data-href" :> "/b"))]

ProdC ==
    [name_el |-> El(<<"O","t","t","o"," ","L","i","n","k">>),
     price_el |-> El(<<" ","$","7">>), link_el |-> Anchor([href |-> "/c"])]

ProdConn ==
    [name_el |-> El(<<"C","o","n","n">>), price_el |-> El(<<"$","9">>),
     link_el |-> Anchor([href |-> "/d"])]

\* a product card whose title and price elements are empty, its anchor bare
ProdBlank ==
    [name_el |-> El(<<" ">>), price_el |-> El(<<>>),
     link_el |-> Anchor([class |-> "card"])]

ProdNoName ==
    [name_el |-> NoneVal, price_el |-> El(<<"$","5">>),
     link_el |-> Anchor([href |-> "/a"])]

ProdNoLink ==
    [name_el |-> El(<<"Y","a","n","i">>), price_el |-> NoneVal,
     link_el |-> NoneVal]

ProdBad ==
    [name_el |-> El(<<"O","t","t","o">>), price_el |-> NoneVal,
     link_el |-> Anchor([href |-> "http://["])]

Products ==
    {ProdA, ProdA2, ProdB, ProdC, ProdConn, ProdBlank, ProdNoName, ProdNoLink,
     ProdBad}

SeqsUpTo(S, n) == UNION {[1..k -> S] : k \in 0..n}

\* pages a site serves in the runs
RunPages(s) ==
    IF s = 1 THEN {<<ProdA, ProdConn>>, <<ProdA2, ProdB>>}
    ELSE {<<ProdC>>, <<ProdBad, ProdC>>}

ErrResp == [kind |-> "exception"]

StatusResp == [kind |-> "status"]

OkResp(len, products) ==
    [kind |-> "ok", body |-> [len |-> len, products |-> products]]

\* a body long enough for both programs, and the shell of a JS-only page
LongBody == 5000

ShellBody == 100

Envs(s) ==
    IF s <= LiveSites
    THEN LET pages == {OkResp(LongBody, p) : p \in RunPages(s)}
         IN  [static : {StatusResp, OkResp(ShellBody, <<>>)} \cup pages,
              dynamic : {ErrResp} \cup pages]
    ELSE {[static |-> ErrResp, dynamic |-> ErrResp]}

\* lengths of the bodies a site answers a static request with
BodyLens ==
    {0, ShellBody, EscalationThreshold - 1, EscalationThreshold,
     script_EscalationThreshold - 1, LongBody}

\* what the network answers while the tasks run side by side: two sites
\* have listings, the others are down
PoolEnvs(s) ==
    CASE s = 1 ->
           [static : {StatusResp} \cup {OkResp(n, <<ProdA>>) : n \in BodyLens},
            dynamic : {ErrResp, OkResp(LongBody, <<ProdB>>)}]
      [] s = 2 ->
           [static : {ErrResp, OkResp(LongBody, <<ProdBad, ProdC>>)},
            dynamic : {ErrResp}]
      [] OTHER -> {[static |-> ErrResp, dynamic |-> ErrResp]}

DiskOutcomes == {"ok", "open", "write"}

SmtpOutcomes == {"no_credentials", "sent", "smtp_error"}

ListingA ==
    [name |-> <<"S","e","l","m","e","r">>, price |-> <<"$","5">>,
     link |-> "https://www.getasax.com/a", source |-> SITES[1].url]

ListingB ==
    [name |-> <<"y","a","n","i">>, price |-> <<>>,
     link |-> "https://www.getasax.com/b", source |-> SITES[1].url]

FileOf(value) ==
    [exists |-> TRUE, readable |-> TRUE, text |-> [valid |-> TRUE, value |-> value]]

\* what data/last_items.json can hold when the first run starts
InitFiles ==
    { Missing,
      [exists |-> TRUE, readable |-> FALSE, text |-> json_dump(<<ListingA>>)],
      [exists |-> TRUE, readable |-> TRUE, text |-> NoText],
      FileOf(JsonNull),
      FileOf(JsonList(<<ListingA, NotADict>>)),
      FileOf(JsonList(<<[name |-> <<"x">>]>>)),
      FileOf(JsonList(<<ListingA, ListingB>>)) }

-----------------------------------------------------------------------------
(* Runs.  A run ends at pc = "done", or with an uncaught exception: then   *)
(* exc names it and pc stays at the statement that raised.                 *)

LinksOf(items) == {items[i].link : i \in 1..Len(items)}

\* the listings the snapshot file holds, <<>> when it holds no list
Snapshot(f) ==
    IF f.exists /\ f.text.valid /\ f.text.value.kind = "list"
    THEN f.text.value.items ELSE <<>>

\* the listings a run can load from the snapshot file
Loadable(f) == IF f.readable THEN Snapshot(f) ELSE <<>>

\* the links of the entries of a snapshot that have one
EntryLinks(items) ==
    {items[i].link : i \in {j \in 1..Len(items) :
                              IsDict(items[j]) /\ "link" \in DOMAIN items[j]}}

NoHtml == [s \in Sites |-> NoneVal]

NoContrib == [s \in Sites |-> <<>>]

\* the process of `python scraper_auto.py` / `python script.py`: __main__ calls
\* run_once / main, no scheduler is built
Once ==
    [mode |-> "once", APS_AVAILABLE |-> TRUE, main |-> "run_once",
     scheduler |-> "none", job |-> NoneVal, interrupted |-> FALSE]

Ended == pc = "done" \/ exc # ""

\* the locals at "=== Run started ==="
Reset ==
    /\ html' = NoHtml
    /\ yielded' = {}
    /\ contrib' = NoContrib
    /\ all_items' = <<>>
    /\ filtered' = <<>>
    /\ previous' = JsonList(<<>>)
    /\ new_items' = <<>>
    /\ todo' = <<>>
    /\ saves' = 0
    /\ mails' = <<>>

Init ==
    /\ prog = "auto"
    /\ pc = "done"
    /\ playwright = TRUE
    /\ exc = ""
    /\ file \in InitFiles
    /\ html = NoHtml
    /\ yielded = {}
    /\ contrib = NoContrib
    /\ all_items = <<>>
    /\ filtered = <<>>
    /\ previous = JsonList(<<>>)
    /\ new_items = <<>>
    /\ todo = <<>>
    /\ saves = 0
    /\ mails = <<>>
    /\ started = file
    /\ latest = Snapshot(file)
    /\ vanished = {}
    /\ runs = 0
    /\ config = Shipped("auto")
    /\ futures = NoFutures
    /\ sched = Once

\* The process starts: script.py imports Playwright at line 14 without a
\* guard, scraper_auto.py records the failure in PLAYWRIGHT_AVAILABLE.
StartRun ==
    /\ Ended
    /\ runs < MaxRuns
    /\ runs' = runs + 1
    /\ \E p \in {"auto", "script"}, pw \in BOOLEAN :
          /\ prog' = p
          /\ playwright' = pw
          /\ config' = Shipped(p)
          /\ futures' = (IF p = "script" /\ ~pw THEN NoFutures
                         ELSE submit(Shipped(p).SITES))
          /\ IF p = "script" /\ ~pw
             THEN pc' = "import" /\ exc' = "ImportError"
             ELSE pc' = "pool" /\ exc' = ""
    /\ Reset
    /\ started' = file
    /\ UNCHANGED <<file, latest, vanished,
                   sched>>

\* One future completes and as_completed hands it to the main thread.
Collect(s) ==
    /\ pc = "pool" /\ exc = ""
    /\ s \in DOMAIN futures
    /\ futures[s].state = "pending"
    /\ s \notin yielded
    /\ \E env \in Envs(s) :
          LET h   == IF prog = "auto" THEN fetch_site_html(playwright, env)
                     ELSE fetch_site_data_html(env)
              res == IF prog = "auto" THEN fetch_site(config.SITES[s], h)
                     ELSE fetch_site_data(config.SITES[s], h)
              c   == IF prog = "auto" THEN collect(all_items, res)
                     ELSE script_collect(all_items, res)
          IN  /\ html' = [html EXCEPT ![s] = h]
              /\ futures' = [futures EXCEPT ![s] = Finished(res)]
              /\ yielded' = yielded \cup {s}
              /\ IF c.raised
                 THEN /\ exc' = c.exc
                      /\ UNCHANGED <<all_items, contrib>>
                 ELSE /\ all_items' = c.val
                      /\ contrib' = [contrib EXCEPT ![s] =
                            SubSeq(c.val, Len(all_items) + 1, Len(c.val))]
                      /\ UNCHANGED exc
    /\ UNCHANGED <<prog, pc, playwright, file, filtered, previous, new_items,
                   todo, saves, mails, started, latest, vanished, runs,
                   config, sched>>

\* The pool is drained; filtered = filter_by_brand(all_items).
Filter ==
    /\ pc = "pool" /\ exc = ""
    /\ yielded = DOMAIN config.SITES
    /\ filtered' = (IF prog = "auto"
                    THEN filter_by_brand(all_items, config.TARGET_BRANDS)
                    ELSE filter_items(all_items, config.TARGET_BRANDS))
    /\ pc' = "load"
    /\ UNCHANGED <<prog, playwright, exc, file, html, yielded, contrib,
                   all_items, previous, new_items, todo, saves, mails, started,
                   latest, vanished, runs,
                   config, futures, sched>>

\* previous = load_previous()
Load ==
    /\ pc = "load" /\ exc = ""
    /\ LET r == IF prog = "auto" THEN load_previous(file)
                ELSE load_previous_items(file)
       IN  IF r.raised
           THEN exc' = r.exc /\ UNCHANGED <<pc, previous>>
           ELSE pc' = "diff" /\ previous' = r.val /\ UNCHANGED exc
    /\ UNCHANGED <<prog, playwright, file, html, yielded, contrib, all_items,
                   filtered, new_items, todo, saves, mails, started, latest,
                   vanished, runs,
                   config, futures, sched>>

\* new_items = find_new_items(filtered, previous), then the test of new_items
Diff ==
    /\ pc = "diff" /\ exc = ""
    /\ LET r == IF prog = "auto" THEN find_new_items(filtered, previous)
                ELSE script_find_new_items(filtered, previous)
       IN  IF r.raised
           THEN exc' = r.exc /\ UNCHANGED <<pc, new_items, todo, latest>>
           ELSE /\ pc' = "branch"
                /\ new_items' = r.val
                /\ todo' = Branch(r.val)
                /\ latest' = (IF r.val # <<>> THEN filtered ELSE latest)
                /\ UNCHANGED exc
    /\ UNCHANGED <<prog, playwright, file, html, yielded, contrib, all_items,
                   filtered, previous, saves, mails, started, vanished, runs,
                   config, futures, sched>>

\* save_current(filtered)
Save ==
    /\ pc = "branch" /\ exc = ""
    /\ todo # <<>>
    /\ Head(todo) = "save"
    /\ saves' = saves + 1
    /\ \E disk \in DiskOutcomes :
          LET r == IF prog = "auto" THEN save_current(file, filtered, disk)
                   ELSE save_current_items(file, filtered, disk)
          IN  /\ file' = r.file
              /\ IF r.raised
                 THEN exc' = "OSError" /\ vanished' = {} /\ UNCHANGED todo
                 ELSE todo' = Tail(todo) /\ UNCHANGED <<exc, vanished>>
    /\ UNCHANGED <<prog, pc, playwright, html, yielded, contrib, all_items,
                   filtered, previous, new_items, mails, started, latest, runs,
                   config, futures, sched>>

\* send_email(new_items)
Notify ==
    /\ pc = "branch" /\ exc = ""
    /\ todo # <<>>
    /\ Head(todo) = "notify"
    /\ \E smtp \in SmtpOutcomes :
          mails' = Append(mails,
                      [arg |-> new_items,
                       returned |-> IF prog = "auto" THEN Ok(send_email(smtp))
                                    ELSE Ok(script_send_email(smtp))])
    /\ todo' = Tail(todo)
    /\ UNCHANGED <<prog, pc, playwright, exc, file, html, yielded, contrib,
                   all_items, filtered, previous, new_items, saves, started,
                   latest, vanished, runs,
                   config, futures, sched>>

\* "=== Run finished ==="
Finish ==
    /\ pc = "branch" /\ exc = ""
    /\ todo = <<>>
    /\ pc' = "done"
    /\ vanished' =
          (IF new_items # <<>> THEN {}
           ELSE vanished \cup (EntryLinks(Loadable(started)) \ LinksOf(filtered)))
    /\ UNCHANGED <<prog, playwright, exc, file, html, yielded, contrib,
                   all_items, filtered, previous, new_items, todo, saves, mails,
                   started, latest, runs,
                   config, futures, sched>>

\* one pass of run_once / main after "=== Run started ==="
Pass ==
    \/ \E s \in Sites : Collect(s)
    \/ Filter
    \/ Load
    \/ Diff
    \/ Save
    \/ Notify
    \/ Finish

Next ==
    \/ StartRun
    \/ Pass

Spec == Init /\ [][Next]_vars

-----------------------------------------------------------------------------
(* The extractor alone: fetch_site / fetch_site_data from `if not html` on, *)
(* applied to every page of up to MaxProducts products of every site.      *)

PageOf(s, products) ==
    [NoHtml EXCEPT ![s] = [len |-> LongBody, products |-> products]]

InitParse ==
    /\ prog \in {"auto", "script"}
    /\ pc = "parse"
    /\ playwright = TRUE
    /\ exc = ""
    /\ file = Missing
    /\ html \in {PageOf(s, p) : s \in Sites, p \in SeqsUpTo(Products, MaxProducts)}
    /\ yielded = {}
    /\ contrib = NoContrib
    /\ all_items = <<>>
    /\ filtered = <<>>
    /\ previous = JsonList(<<>>)
    /\ new_items = <<>>
    /\ todo = <<>>
    /\ saves = 0
    /\ mails = <<>>
    /\ started = file
    /\ latest = <<>>
    /\ vanished = {}
    /\ runs = 1
    /\ config = Shipped(prog)
    /\ futures = NoFutures
    /\ sched = Once

Parse ==
    /\ pc = "parse" /\ exc = ""
    /\ \E s \in Sites :
          /\ html[s] # NoneVal
          /\ LET res == IF prog = "auto" THEN fetch_site(config.SITES[s], html[s])
                        ELSE fetch_site_data(config.SITES[s], html[s])
             IN  IF res.raised
                 THEN exc' = res.exc /\ UNCHANGED <<pc, contrib, yielded>>
                 ELSE /\ contrib' = [contrib EXCEPT ![s] = res.val]
                      /\ yielded' = {s}
                      /\ pc' = "parsed"
                      /\ UNCHANGED exc
    /\ UNCHANGED <<prog, playwright, file, html, all_items, filtered, previous,
                   new_items, todo, saves, mails, started, latest, vanished,
                   runs,
                   config, futures, sched>>

SpecParse == InitParse /\ [][Parse]_vars

-----------------------------------------------------------------------------
(* The diff alone: find_new_items applied to every pair of a current       *)
(* collection and a previous snapshot of up to MaxListings entries.        *)

ListingA2 ==
    [name |-> <<"S","E","L","M","E","R"," ","I","I">>, price |-> PriceNotListed,
     link |-> "https://www.getasax.com/a", source |-> SITES[1].url]

\* a listing as script.py builds it: no "source" key
ListingC ==
    [name |-> <<"O","t","t","o"," ","L","i","n","k">>, price |-> <<"$","7">>,
     link |-> "https://www.saxquest.com/c"]

\* listings the extractor can emit
Listings == {ListingA, ListingA2, ListingB, ListingC}

\* entries a snapshot file can hold
Entries ==
    Listings \cup {[name |-> <<"x">>], [name |-> <<"x">>, link |-> ""], NotADict}

InitDiff ==
    /\ prog \in {"auto", "script"}
    /\ pc = "diff"
    /\ playwright = TRUE
    /\ exc = ""
    /\ file = Missing
    /\ html = NoHtml
    /\ yielded = Sites
    /\ contrib = NoContrib
    /\ all_items = <<>>
    /\ filtered \in SeqsUpTo(Listings, MaxListings)
    /\ previous \in {JsonList(e) : e \in SeqsUpTo(Entries, MaxListings)}
    /\ new_items = <<>>
    /\ todo = <<>>
    /\ saves = 0
    /\ mails = <<>>
    /\ started = file
    /\ latest = <<>>
    /\ vanished = {}
    /\ runs = 1
    /\ config = Shipped(prog)
    /\ futures = NoFutures
    /\ sched = Once

SpecDiff == InitDiff /\ [][Diff]_vars

-----------------------------------------------------------------------------
(* One pass of each program with its globals as shipped, with SITES = []   *)
(* and with TARGET_BRANDS = [].                                            *)

Configs(p) ==
    {Shipped(p), [Shipped(p) EXCEPT !.SITES = <<>>],
     [Shipped(p) EXCEPT !.TARGET_BRANDS = <<>>]}

InitConfig ==
    /\ prog \in {"auto", "script"}
    /\ pc = "pool"
    /\ playwright = TRUE
    /\ exc = ""
    /\ file \in InitFiles
    /\ html = NoHtml
    /\ yielded = {}
    /\ contrib = NoContrib
    /\ all_items = <<>>
    /\ filtered = <<>>
    /\ previous = JsonList(<<>>)
    /\ new_items = <<>>
    /\ todo = <<>>
    /\ saves = 0
    /\ mails = <<>>
    /\ started = file
    /\ latest = Snapshot(file)
    /\ vanished = {}
    /\ runs = 1
    /\ config \in Configs(prog)
    /\ futures = submit(config.SITES)
    /\ sched = Once

SpecConfig == InitConfig /\ [][Pass]_vars

-----------------------------------------------------------------------------
(* The process of scraper_auto.py from __main__ on, in both modes:         *)
(* `python scraper_auto.py` calls run_once, `python scraper_auto.py        *)
(* schedule` calls start_scheduler, whose main thread then sleeps in       *)
(* `while True: time.sleep(3600)` while the scheduler thread runs the jobs  *)
(* that are due.                                                           *)

\* scheduler.add_job(run_once, 'interval', minutes=..., next_run_time=...):
\* the job the scheduler stores
add_job(func, trigger, next_run_time) ==
    [func |-> func, trigger |-> trigger, next_run_time |-> next_run_time]

\* The scheduler thread runs a job when its next_run_time has come; a job
\* whose next_run_time is None is paused and has none.
JobDue ==
    /\ sched.scheduler = "running"
    /\ sched.job # NoneVal
    /\ sched.job.next_run_time # NoneVal

InitSchedule ==
    /\ prog = "auto"
    /\ pc = "done"
    /\ playwright \in BOOLEAN
    /\ exc = ""
    /\ file \in InitFiles
    /\ html = NoHtml
    /\ yielded = {}
    /\ contrib = NoContrib
    /\ all_items = <<>>
    /\ filtered = <<>>
    /\ previous = JsonList(<<>>)
    /\ new_items = <<>>
    /\ todo = <<>>
    /\ saves = 0
    /\ mails = <<>>
    /\ started = file
    /\ latest = Snapshot(file)
    /\ vanished = {}
    /\ runs = 0
    /\ config = Shipped("auto")
    /\ futures = NoFutures
    /\ sched \in {[mode |-> m, APS_AVAILABLE |-> a, main |-> "cli",
                    scheduler |-> "none", job |-> NoneVal, interrupted |-> FALSE] :
                       m \in {"once", "schedule"}, a \in BOOLEAN}

\* start_scheduler up to its sleep loop
start_scheduler ==
    /\ sched.main = "cli" /\ sched.mode = "schedule"
    /\ sched' = (IF ~sched.APS_AVAILABLE
                 THEN [sched EXCEPT !.main = "exit"]
                 ELSE [sched EXCEPT !.job = add_job("run_once", "interval", NoneVal),
                                    !.scheduler = "running",
                                    !.main = "sleep"])
    /\ UNCHANGED <<prog, pc, playwright, exc, file, html, yielded, contrib,
                   all_items, filtered, previous, new_items, todo, saves, mails,
                   started, latest, vanished, runs, config, futures>>

\* run_once is called: by __main__ in mode "once", by the scheduler thread
\* when the job is due (one instance of a job at a time).
RunOnce ==
    /\ Ended
    /\ runs < MaxRuns
    /\ IF sched.main = "cli" THEN sched.mode = "once" ELSE JobDue
    /\ sched' = (IF sched.main = "cli" THEN [sched EXCEPT !.main = "run_once"]
                 ELSE sched)
    /\ runs' = runs + 1
    /\ pc' = "pool"
    /\ exc' = ""
    /\ Reset
    /\ futures' = submit(config.SITES)
    /\ started' = file
    /\ UNCHANGED <<prog, playwright, file, latest, vanished, config>>

\* KeyboardInterrupt / SystemExit in the sleep loop: scheduler.shutdown()
Interrupt ==
    /\ sched.main = "sleep"
    /\ sched' = [sched EXCEPT !.scheduler = "shutdown", !.main = "exit",
                              !.interrupted = TRUE]
    /\ UNCHANGED <<prog, pc, playwright, exc, file, html, yielded, contrib,
                   all_items, filtered, previous, new_items, todo, saves, mails,
                   started, latest, vanished, runs, config, futures>>

NextSchedule ==
    \/ start_scheduler
    \/ RunOnce
    \/ Interrupt
    \/ Pass

\* The interpreter keeps running the main thread and the thread of the
\* scheduler; nothing makes the interrupt come.
SpecSchedule ==
    /\ InitSchedule
    /\ [][NextSchedule]_vars
    /\ WF_vars(start_scheduler)
    /\ WF_vars(RunOnce)
    /\ WF_vars(Pass)

-----------------------------------------------------------------------------
(* One pass with the tasks of the pool running side by side: a worker      *)
(* thread takes the next queued task, the task makes its static request,   *)
(* escalates or returns, and as_completed hands the finished futures to    *)
(* the main thread one by one.                                             *)

InitPool ==
    /\ prog \in {"auto", "script"}
    /\ pc = "pool"
    /\ playwright \in (IF prog = "auto" THEN BOOLEAN ELSE {TRUE})
    /\ exc = ""
    /\ file \in {Missing, FileOf(JsonList(<<ListingA, ListingB>>))}
    /\ html = NoHtml
    /\ yielded = {}
    /\ contrib = NoContrib
    /\ all_items = <<>>
    /\ filtered = <<>>
    /\ previous = JsonList(<<>>)
    /\ new_items = <<>>
    /\ todo = <<>>
    /\ saves = 0
    /\ mails = <<>>
    /\ started = file
    /\ latest = Snapshot(file)
    /\ vanished = {}
    /\ runs = 1
    /\ config = Shipped(prog)
    /\ futures = submit(config.SITES)
    /\ sched = Once

\* A worker thread takes the task at the head of the queue.
Begin(s) ==
    /\ pc = "pool"
    /\ s \in DOMAIN futures
    /\ futures[s].state = "pending"
    /\ \A r \in DOMAIN futures : r < s => futures[r].state # "pending"
    /\ Cardinality(Running(futures)) < pool_size(prog)
    /\ futures' = [futures EXCEPT ![s] = [state |-> "static"]]
    /\ UNCHANGED <<prog, pc, playwright, exc, file, html, yielded, contrib,
                   all_items, filtered, previous, new_items, todo, saves, mails,
                   started, latest, vanished, runs, config, sched>>

\* fetch_static_html returns; the task escalates, or parses and returns.
Static(s) ==
    /\ pc = "pool"
    /\ s \in DOMAIN futures
    /\ futures[s].state = "static"
    /\ \E env \in PoolEnvs(s) :
          LET h == fetch_static_html(env.static)
              e == IF prog = "auto" THEN escalates(h) ELSE script_escalates(h)
              res == IF prog = "auto" THEN fetch_site(config.SITES[s], h)
                     ELSE fetch_site_data(config.SITES[s], h)
          IN  /\ html' = [html EXCEPT ![s] = h]
              /\ futures' = [futures EXCEPT ![s] =
                                IF e THEN [state |-> "dynamic"] ELSE Finished(res)]
    /\ UNCHANGED <<prog, pc, playwright, exc, file, yielded, contrib,
                   all_items, filtered, previous, new_items, todo, saves, mails,
                   started, latest, vanished, runs, config, sched>>

\* fetch_dynamic_html returns; the task parses and returns.
Dynamic(s) ==
    /\ pc = "pool"
    /\ s \in DOMAIN futures
    /\ futures[s].state = "dynamic"
    /\ \E env \in PoolEnvs(s) :
          LET h == IF prog = "auto" THEN fetch_dynamic_html(playwright, env.dynamic)
                   ELSE script_fetch_dynamic_html(env.dynamic)
              res == IF prog = "auto" THEN fetch_site(config.SITES[s], h)
                     ELSE fetch_site_data(config.SITES[s], h)
          IN  /\ html' = [html EXCEPT ![s] = h]
              /\ futures' = [futures EXCEPT ![s] = Finished(res)]
    /\ UNCHANGED <<prog, pc, playwright, exc, file, yielded, contrib,
                   all_items, filtered, previous, new_items, todo, saves, mails,
                   started, latest, vanished, runs, config, sched>>

\* as_completed hands a finished future to the main thread: the loop body.
Yield(s) ==
    /\ pc = "pool" /\ exc = ""
    /\ s \in DOMAIN futures
    /\ futures[s].state = "finished"
    /\ s \notin yielded
    /\ LET c == IF prog = "auto" THEN collect(all_items, futures[s].result)
                ELSE script_collect(all_items, futures[s].result)
       IN  /\ yielded' = yielded \cup {s}
           /\ IF c.raised
              THEN /\ exc' = c.exc
                   /\ UNCHANGED <<all_items, contrib>>
              ELSE /\ all_items' = c.val
                   /\ contrib' = [contrib EXCEPT ![s] =
                         SubSeq(c.val, Len(all_items) + 1, Len(c.val))]
                   /\ UNCHANGED exc
    /\ UNCHANGED <<prog, pc, playwright, file, html, filtered, previous,
                   new_items, todo, saves, mails, started, latest, vanished,
                   runs, config, futures, sched>>

NextPool ==
    \/ \E s \in Sites : Begin(s)
    \/ \E s \in Sites : Static(s)
    \/ \E s \in Sites : Dynamic(s)
    \/ \E s \in Sites : Yield(s)
    \/ Filter
    \/ Load
    \/ Diff
    \/ Save
    \/ Notify
    \/ Finish

SpecPool == InitPool /\ [][NextPool]_vars

-----------------------------------------------------------------------------
(* The filter alone: filter_by_brand / filter_items applied to every        *)
(* collection of up to MaxListings listings.                               *)

ListingConn ==
    [name |-> <<"C","o","n","n">>, price |-> <<"$","9">>,
     link |-> "https://www.getasax.com/d", source |-> SITES[1].url]

\* the name of ListingA on another site, at another price
ListingD ==
    [name |-> <<"S","e","l","m","e","r">>, price |-> PriceNotListed,
     link |-> "https://www.saxquest.com/a", source |-> SITES[2].url]

\* "Otto Link" is a brand of scraper_auto.py only, "Guardala" of script.py only
ListingG ==
    [name |-> <<"g","u","a","r","d","a","l","a">>, price |-> <<"$","9">>,
     link |-> "https://www.saxquest.com/g"]

\* the name of ListingConn at the price and link of ListingA
ListingConnA ==
    [name |-> <<"C","o","n","n">>, price |-> <<"$","5">>,
     link |-> "https://www.getasax.com/a", source |-> SITES[1].url]

FilterListings ==
    {ListingA, ListingA2, ListingB, ListingConn, ListingD, ListingG, ListingConnA}

InitFilter ==
    /\ prog \in {"auto", "script"}
    /\ pc = "pool"
    /\ playwright = TRUE
    /\ exc = ""
    /\ file = Missing
    /\ html = NoHtml
    /\ yielded = Sites
    /\ contrib = NoContrib
    /\ all_items \in SeqsUpTo(FilterListings, MaxListings)
    /\ filtered = <<>>
    /\ previous = JsonList(<<>>)
    /\ new_items = <<>>
    /\ todo = <<>>
    /\ saves = 0
    /\ mails = <<>>
    /\ started = file
    /\ latest = <<>>
    /\ vanished = {}
    /\ runs = 1
    /\ config = Shipped(prog)
    /\ futures = NoFutures
    /\ sched = Once

SpecFilter == InitFilter /\ [][Filter]_vars

-----------------------------------------------------------------------------
(* Claims. *)

\* C1: in a run whose diff is empty, save_current is not called, send_email
\* is not called, and the snapshot file is what it was when the run started.
C1_NoOpLaw ==
    (pc \in {"branch", "done"} /\ exc = "" /\ runs > 0 /\ new_items = <<>>)
        => (saves = 0 /\ mails = <<>> /\ file = started)

\* a run over a stored snapshot ended without news although it had listings
C1_Witness ==
    /\ pc = "done" /\ runs > 0
    /\ new_items = <<>>
    /\ filtered # <<>>
    /\ Snapshot(file) # <<>>

\* C2: after a run whose diff is not empty the snapshot file holds exactly
\* that run's filtered collection, and between runs it holds the filtered
\* collection of the last run that found new items (the initial snapshot
\* when none did).
C2_FullReplacement ==
    /\ (pc = "done" /\ new_items # <<>>) =>
           (file.exists /\ file.text.valid /\ Snapshot(file) = filtered)
    /\ Ended => Snapshot(file) = latest

\* C3: find_new_items(current, previous) is the listings of current whose
\* link is not a link of previous, in the order of current; the diff of a
\* collection against itself is empty.
C3_DiffExact ==
    (pc = "branch" /\ exc = "") =>
        /\ new_items = SelectSeq(filtered,
              LAMBDA it : it.link \notin EntryLinks(previous.items))
        /\ previous.items = filtered => new_items = <<>>

\* a diff that kept some listings of current and dropped others
C3_Witness ==
    /\ pc = "branch" /\ exc = ""
    /\ new_items # <<>>
    /\ Len(new_items) < Len(filtered)

\* C4: in every run send_email is called once when the diff is not empty
\* and never when it is empty, and its argument is the diff.
C4_NotifyExactlyOnce ==
    (Ended /\ runs > 0) =>
        /\ Len(mails) = (IF new_items # <<>> THEN 1 ELSE 0)
        /\ \A i \in 1..Len(mails) : mails[i].arg = new_items

\* C5: when send_email is called save_current has returned, and from that
\* call to the end of the run the snapshot file does not change, whatever
\* send_email returns.
C5_PersistBeforeNotify ==
    [][(Len(mails') > Len(mails) \/ (mails # <<>> /\ mails' # <<>>))
          => (saves >= 1 /\ file' = file)]_vars

\* a run that wrote the snapshot, failed to send the mail and finished
C5_Witness ==
    /\ pc = "done" /\ prog = "auto"
    /\ Len(mails) = 1
    /\ mails[1].returned = Ok(FALSE)
    /\ Snapshot(file) = filtered
    /\ file # started

\* what a site's future adds to all_items according to C6: nothing when
\* its fetch failed, the extraction of its page otherwise
C6_Contribution(s) ==
    IF Falsy(html[s]) THEN <<>>
    ELSE IF prog = "auto" THEN parse_items_from_html(html[s].products, SITES[s])
    ELSE parse_items(html[s].products, SITES[s]).val

\* C6: a source whose fetch fails (static and dynamic, or no rendering
\* engine) adds nothing to the merged result, every other source adds what
\* its page holds, and no fetch failure ends the run with an exception.
C6_FetchFailureIsolated ==
    /\ (pc \in {"load", "diff", "branch", "done"} /\ runs > 0) =>
           \A s \in Sites : contrib[s] = C6_Contribution(s)
    /\ exc # "ImportError"

\* a snapshot file that is missing, unreadable or holds no list of listings
C7_Malformed(f) ==
    \/ ~f.exists
    \/ ~f.readable
    \/ ~f.text.valid
    \/ f.text.value.kind # "list"
    \/ \E i \in 1..Len(f.text.value.items) :
          \/ ~IsDict(f.text.value.items[i])
          \/ "link" \notin DOMAIN f.text.value.items[i]

\* C7: loading never fails the run: with a missing, unreadable or malformed
\* snapshot file the run goes on as with an empty previous snapshot, and no
\* exception leaves the load or the diff.
C7_LoadNeverFails ==
    /\ ~(exc # "" /\ pc \in {"load", "diff"})
    /\ (pc \in {"branch", "done"} /\ runs > 0 /\ C7_Malformed(started))
           => new_items = filtered

\* C8: a link of the snapshot that a run missed and a later run finds again
\* is not in that run's diff nor in its mail, as long as no run in between
\* found a new item.
C8_NoReflag ==
    (pc = "branch" /\ exc = "") =>
        /\ LinksOf(new_items) \cap vanished = {}
        /\ \A i \in 1..Len(mails) : LinksOf(mails[i].arg) \cap vanished = {}

\* a link missed by an earlier run is back in the filtered collection
C8_Witness ==
    /\ pc = "branch" /\ exc = ""
    /\ LinksOf(filtered) \cap vanished # {}

\* the href C9 reads off an anchor: "" when it has none
C9_Href(link_el) ==
    IF GetTruthy(link_el.attrs, "href") THEN link_el.attrs["href"]
    ELSE IF prog = "auto" /\ GetTruthy(link_el.attrs, "data-href")
         THEN link_el.attrs["data-href"]
    ELSE ""

\* the products C9 lets through: name and link elements found, the name
\* text and the href not empty
C9_Accepts(product) ==
    /\ product.name_el # NoneVal
    /\ product.link_el # NoneVal
    /\ get_text(product.name_el) # <<>>
    /\ C9_Href(product.link_el) # ""

\* C9: the extractor emits no listing with an empty name or an empty link:
\* it emits as many listings as the page has products whose name text and
\* href are both non-empty.
C9_NoEmptyNameOrLink ==
    (pc = "parsed") =>
        \A s \in yielded :
            /\ \A i \in 1..Len(contrib[s]) :
                  contrib[s][i].name # <<>> /\ contrib[s][i].link # ""
            /\ Len(contrib[s]) =
                  Len(SelectSeq(html[s].products, C9_Accepts))

\* the price C10 gives a product
C10_Price(product) ==
    IF product.price_el = NoneVal \/ get_text(product.price_el) = <<>>
    THEN PriceNotListed
    ELSE get_text(product.price_el)

\* the products the extractor emitted a listing for
C10_Emitted(product, site) ==
    LET r == IF prog = "auto" THEN auto_parse_product(product, site)
             ELSE script_parse_product(product, site)
    IN  ~r.raised /\ r.val # <<>>

\* C10: the price of an emitted listing is "Price not listed" when the
\* price element is missing or its text is empty, and that text otherwise.
C10_PriceSentinel ==
    (pc = "parsed") =>
        \A s \in yielded :
            LET emitted == SelectSeq(html[s].products,
                              LAMBDA p : C10_Emitted(p, SITES[s]))
            IN  /\ Len(contrib[s]) = Len(emitted)
                /\ \A i \in 1..Len(contrib[s]) :
                      contrib[s][i].price = C10_Price(emitted[i])

\* C11: the filter keeps a listing iff its lower-cased name contains a
\* lower-cased brand of the allowlist; a listing's other fields do not count;
\* the output is the kept listings in input order.
C11_Brands == IF prog = "auto" THEN TARGET_BRANDS ELSE script_TARGET_BRANDS

\* some slice of the lower-cased name is a lower-cased brand
C11_Kept(it) ==
    \E k \in 1..Len(C11_Brands) :
        \E i \in 1..(Len(it.name) + 1), j \in 0..Len(it.name) :
            /\ j - i + 1 = Len(C11_Brands[k])
            /\ \A n \in 1..Len(C11_Brands[k]) :
                   LowerChar(it.name[i + n - 1]) = LowerChar(C11_Brands[k][n])

C11_KeptAt == {i \in 1..Len(all_items) : C11_Kept(all_items[i])}

\* position in all_items of the k-th kept listing
C11_Nth(k) ==
    CHOOSE i \in C11_KeptAt : Cardinality({j \in C11_KeptAt : j < i}) = k - 1

C11_FilterExact ==
    (pc = "load" /\ exc = "") =>
        /\ Len(filtered) = Cardinality(C11_KeptAt)
        /\ \A k \in 1..Len(filtered) : filtered[k] = all_items[C11_Nth(k)]
        /\ \A i, j \in 1..Len(all_items) :
               all_items[i].name = all_items[j].name
                   => (i \in C11_KeptAt <=> j \in C11_KeptAt)

\* a collection lost a listing between two it kept, one of them matching
\* only once its name is lower-cased
C11_Witness ==
    /\ pc = "load" /\ exc = ""
    /\ Len(all_items) = 2 /\ Len(filtered) = 1
    /\ \E i \in 1..2 : all_items[i].name = <<"C","o","n","n">>
    /\ filtered[1].name = <<"S","E","L","M","E","R"," ","I","I">>

\* C12: a listing of the filtered set whose link the loaded snapshot holds is
\* not in the diff, whatever its name and price; a run whose filtered set has
\* the links of the snapshot, no more and no less, neither saves nor mails.
C12_Renamed(i) ==
    \E j \in 1..Len(Loadable(started)) :
        /\ IsDict(Loadable(started)[j])
        /\ "link" \in DOMAIN Loadable(started)[j]
        /\ Loadable(started)[j].link = filtered[i].link
        /\ \/ Loadable(started)[j].name # filtered[i].name
           \/ Loadable(started)[j].price # filtered[i].price

C12_ChangeIsNotNew ==
    (pc \in {"branch", "done"} /\ exc = "") =>
        /\ \A i \in 1..Len(filtered) :
               filtered[i].link \in EntryLinks(Loadable(started))
                   => \A k \in 1..Len(new_items) : new_items[k] # filtered[i]
        /\ LinksOf(filtered) = EntryLinks(Loadable(started))
               => (saves = 0 /\ mails = <<>> /\ file = started)

\* a run ended over a snapshot whose links all came back, one under a new
\* name and price
C12_Witness ==
    /\ pc = "done" /\ exc = "" /\ runs > 0
    /\ filtered # <<>>
    /\ LinksOf(filtered) = EntryLinks(Loadable(started))
    /\ \E i \in 1..Len(filtered) : C12_Renamed(i)

\* C13: with no site or no brand configured the run does not start: no fetch
\* is issued, the snapshot is neither loaded nor written, no mail is sent.
C13_MisconfigurationAborts ==
    (config.SITES = <<>> \/ config.TARGET_BRANDS = <<>>) =>
        /\ yielded = {}
        /\ \A s \in DOMAIN futures : futures[s].state = "pending"
        /\ pc \in {"pool", "load"}
        /\ saves = 0 /\ mails = <<>> /\ file = started

\* C14: in scheduled mode run_once is started again and again for as long as
\* the process is not interrupted, and is not started after the interrupt.
C14_ScheduledRunsRepeat ==
    /\ [](sched.mode = "schedule" => <>(sched.interrupted \/ pc = "pool"))
    /\ [][sched.interrupted => runs' = runs]_vars

\* C15: an exception raised inside the task of one site counts as an empty
\* list for that site; every other site's listings are merged and nothing
\* propagates out of the collection loop.
C15_Result(s) ==
    IF futures[s].result.raised THEN <<>> ELSE futures[s].result.val

C15_TaskExceptionIsolated ==
    /\ pc = "pool" => exc = ""
    /\ \A s \in yielded : contrib[s] = C15_Result(s)

\* C16: a task makes the dynamic fetch iff its static fetch gave no HTML or a
\* body shorter than the threshold of its program; a body of at least the
\* threshold is parsed as it is, without a dynamic fetch.
C16_Threshold ==
    IF prog = "auto" THEN EscalationThreshold ELSE script_EscalationThreshold

C16_Insufficient(h) == h = NoneVal \/ h.len < C16_Threshold

C16_Parsed(s, h) ==
    IF prog = "auto" THEN Ok(parse_items_from_html(h.products, config.SITES[s]))
    ELSE parse_items(h.products, config.SITES[s])

C16_EscalationCondition ==
    /\ [](\A s \in DOMAIN futures :
             futures[s].state = "dynamic" => C16_Insufficient(html[s]))
    /\ [][\A s \in DOMAIN futures :
             (futures[s].state = "static" /\ futures'[s].state # "static") =>
                 /\ futures'[s].state = "dynamic" <=> C16_Insufficient(html'[s])
                 /\ futures'[s].state = "finished"
                        => futures'[s].result = C16_Parsed(s, html'[s])]_vars

\* a task is in its dynamic fetch after a static body one short of the
\* threshold
C16_Witness ==
    \E s \in DOMAIN futures :
        /\ futures[s].state = "dynamic"
        /\ html[s] # NoneVal
        /\ html[s].len = C16_Threshold - 1

\* C17: whatever the order in which the tasks complete and are handed over,
\* all_items holds each listing as often as the results of the yielded
\* futures hold it, the links of the diff are those of the matching listings
\* of all results that the snapshot lacks, and the run saves and mails iff
\* there is such a link.
C17_Result(s) ==
    IF futures[s].state = "finished" /\ ~futures[s].result.raised
    THEN futures[s].result.val ELSE <<>>

C17_Count(seq, x) == Cardinality({i \in 1..Len(seq) : seq[i] = x})

RECURSIVE C17_Sum(_, _)
C17_Sum(S, x) ==
    IF S = {} THEN 0
    ELSE LET s == CHOOSE r \in S : TRUE
         IN  C17_Count(C17_Result(s), x) + C17_Sum(S \ {s}, x)

C17_Merged == UNION {Range(C17_Result(s)) : s \in yielded}

C17_NewLinks ==
    {x.link : x \in {y \in C17_Merged :
                        MatchesBrand(y.name, config.TARGET_BRANDS)}}
        \ EntryLinks(Loadable(started))

C17_OrderIndependent ==
    /\ \A x \in C17_Merged \cup Range(all_items) :
           C17_Count(all_items, x) = C17_Sum(yielded, x)
    /\ (pc \in {"branch", "done"} /\ exc = "")
           => LinksOf(new_items) = C17_NewLinks
    /\ (pc = "done" /\ exc = "")
           => IF C17_NewLinks # {} THEN saves = 1 /\ Len(mails) = 1
              ELSE saves = 0 /\ mails = <<>>

\* a run ended with news in which the second site was handed over before
\* the first, both with a listing
C17_Witness ==
    /\ pc = "done" /\ exc = ""
    /\ Len(all_items) = 2
    /\ all_items[1].link = "https://www.saxquest.com/c"
    /\ all_items[2].link = "https://www.getasax.com/a"
    /\ new_items # <<>>

\* C18: at every moment at most max_workers tasks (4 in scraper_auto.py, 3 in
\* script.py) are executing, so at most that many static requests and
\* browsers are live, although five sites are submitted.
C18_PoolBound ==
    /\ Cardinality(Running(futures))
           <= (IF prog = "auto" THEN max_workers ELSE script_max_workers)
    /\ pc = "pool" => Cardinality(DOMAIN futures) = Len(SITES)

\* every worker thread is busy while a submitted task waits in the queue
C18_Witness ==
    /\ pc = "pool"
    /\ Cardinality(Running(futures))
           = (IF prog = "auto" THEN max_workers ELSE script_max_workers)
    /\ \E s \in DOMAIN futures : futures[s].state = "pending"
    /\ \E s \in DOMAIN futures : futures[s].state = "dynamic"

\* C19: an item whose name or link selector matches nothing, or whose
\* parsing raises, is skipped and the page is not aborted: the extractor
\* returns what it returns for the page without its malformed items, one
\* listing per well-formed item, in document order.
C19_WellFormed(product) ==
    /\ product.name_el # NoneVal
    /\ product.link_el # NoneVal
    /\ \A a \in DOMAIN product.link_el.attrs :
           product.link_el.attrs[a] \notin InvalidHrefs

C19_Extract(products, s) ==
    IF prog = "auto" THEN Ok(parse_items_from_html(products, config.SITES[s]))
    ELSE parse_items(products, config.SITES[s])

C19_MalformedSkipped ==
    /\ exc = ""
    /\ \A s \in yielded :
           LET kept == SelectSeq(html[s].products, C19_WellFormed)
           IN  /\ contrib[s] = C19_Extract(kept, s).val
               /\ Len(contrib[s]) = Len(kept)
               /\ \A i \in 1..Len(kept) :
                      contrib[s][i].name = get_text(kept[i].name_el)

\* C20: when a run ends, every link it passed to send_email is in the
\* snapshot file, also when the write of the snapshot failed.
C20_NotifiedLinksPersisted ==
    (pc = "done" /\ exc = "" /\ runs > 0) =>
        \A k \in 1..Len(mails) :
            LinksOf(mails[k].arg) \subseteq EntryLinks(Snapshot(file))

====
